---- MODULE Spec2Model ----
(***************************************************************************)
(* little-parser-lib: the backtracking token cursor (TokenStream), the     *)
(* primitive matchers (anyOf, anyExcept, endOfInput), the combinator       *)
(* engine (and, attempt, optional, or, many, map, label), the Tokenizer    *)
(* and the runners (runParser, runParserOnString).                         *)
(*                                                                         *)
(* A parser is a syntax tree; Run(p, s) evaluates it on a stream           *)
(* s = [tokens, position, positionStack] exactly as the closures of        *)
(* combinators.ts / parsers.ts do, and yields the returned object, the     *)
(* stream state left behind and the list of parser invocations made.       *)
(* The state machine is one TokenStream on which a caller invokes the      *)
(* cursor methods, applies parsers and calls the runners.                  *)
(***************************************************************************)
EXTENDS Integers, Sequences, FiniteSets, TLC

\* ------------------------------------------------------------------ bounds
\* longest token array handed to the TokenStream constructor
MaxLen == 2
\* largest cursor index a step may leave behind (consume() never stops
\* counting, so the index is capped in the guards)
MaxPos == 3
\* deepest backtrack stack the caller builds by hand with storePosition()
MaxStack == 2

\* ------------------------------------------------------------------ tokens
\* token types of the modelled grammar ('end_of_input' is the reserved tag)
TokenTypes == {"a", "b"}

\* types.ts Token, with position flattened to line/column
Token(type, line, column) ==
  [type |-> type, value |-> type, line |-> line, column |-> column]

NoToken == [type |-> "", value |-> "", line |-> 0, column |-> 0]

\* the reserved tag endOfInput() accepts as a token
EndOfInputType == "end_of_input"

\* the token arrays a caller passes to new TokenStream(tokens): the i-th
\* token sits on line 1, column i; a caller that marks the end of the input
\* puts a token of the reserved type last
TokenArrays ==
  UNION { { [i \in 1..n |-> Token(ty[i], 1, i)] : ty \in [1..n -> TokenTypes] }
          : n \in 0..MaxLen }
  \cup UNION { { [i \in 1..n |-> Token(IF i = n THEN EndOfInputType ELSE ty[i], 1, i)]
                  : ty \in [1..n -> TokenTypes] }
                : n \in 1..MaxLen }

\* ------------------------------------------------------------ JS values
\* what a `result` field (or a method's return value) can hold
Undefined == [vk |-> "undefined", tok |-> NoToken, items |-> << >>]
Null == [vk |-> "null", tok |-> NoToken, items |-> << >>]
TokenValue(t) == [vk |-> "token", tok |-> t, items |-> << >>]
Array(xs) == [vk |-> "array", tok |-> NoToken, items |-> xs]

\* an absent errorMessage / position field (every message the library
\* builds is a non-empty text)
NoMessage == << >>
NoPosition == [position |-> -1, line |-> 0, column |-> 0]

\* ParserResult objects; kind "raise" is a thrown exception, "diverge" a
\* call that never returns, "null" the value null returned in place of an
\* object
SuccessfulParserResult(v) ==
  [kind |-> "object", result |-> v, errorMessage |-> NoMessage, position |-> NoPosition]
FailedParserResult(msg, pos) ==
  [kind |-> "object", result |-> Undefined, errorMessage |-> msg, position |-> pos]
NullResult ==
  [kind |-> "null", result |-> Undefined, errorMessage |-> NoMessage, position |-> NoPosition]
Raised ==
  [kind |-> "raise", result |-> Undefined, errorMessage |-> NoMessage, position |-> NoPosition]
Diverged ==
  [kind |-> "diverge", result |-> Undefined, errorMessage |-> NoMessage, position |-> NoPosition]

isSuccessfulResult(r) == r.result # Undefined
isFailedResult(r) == r.errorMessage # NoMessage

VARIABLES
  tokens,         \* TokenStream.tokens
  position,       \* TokenStream.position
  positionStack,  \* TokenStream.positionStack
  lastOp,         \* the call made last: a parser tree or a cursor method
  before,         \* the cursor state that call started from
  outcome,        \* what it returned
  calls           \* the parser invocations it made, in order

vars == <<tokens, position, positionStack, lastOp, before, outcome, calls>>

\* --------------------------------------------------------- TokenStream
\* the caller's TokenStream object, its index at pos and its stack stk
Stream(pos, stk) == [tokens |-> tokens, position |-> pos, positionStack |-> stk]

\* new TokenStream(toks)
TokenStream(toks) == [tokens |-> toks, position |-> 0, positionStack |-> << >>]

\* this.tokens[i] || null
tokenAt(s, i) ==
  IF i >= 0 /\ i < Len(s.tokens) THEN TokenValue(s.tokens[i + 1]) ELSE Null

peek(s) == tokenAt(s, s.position)

\* consume() that hands out the token and forgets to advance
consumeWithoutAdvance(s) ==
  [ret |-> tokenAt(s, s.position), s |-> s]

\* returns this.tokens[this.position++] || null: the increment is
\* unconditional
consume(s) ==
  [ret |-> tokenAt(s, s.position),
   s |-> [s EXCEPT !.position = @ + 1]]

includes(types, ty) == \E i \in 1..Len(types) : types[i] = ty

consumeIf(s, types) ==
  LET token == peek(s)
  IN IF token # Null /\ includes(types, token.tok.type)
       THEN consume(s)
       ELSE [ret |-> Null, s |-> s]

\* storePosition() that puts the index at the bottom of the stack
storePositionAtBottom(s) == [s EXCEPT !.positionStack = <<s.position>> \o @]

storePosition(s) == [s EXCEPT !.positionStack = Append(@, s.position)]

\* Array.prototype.pop on an empty array removes nothing
pop(stk) == IF Len(stk) = 0 THEN stk ELSE SubSeq(stk, 1, Len(stk) - 1)

\* clearPosition() that leaves the saved index on the stack
clearPositionWithoutPop(s) == s

clearPosition(s) == [s EXCEPT !.positionStack = pop(@)]

\* restorePosition() that pops the saved index and forgets to go back to it
restorePositionWithoutRewind(s) == [s EXCEPT !.positionStack = pop(@)]

restorePosition(s) ==
  IF Len(s.positionStack) = 0
    THEN s
    ELSE [s EXCEPT !.position = s.positionStack[Len(s.positionStack)],
                   !.positionStack = pop(@)]

\* tokenToUse is undefined for an empty token array, and reading
\* tokenToUse.position then throws a TypeError
getPositionForError(s) ==
  LET tokenToUse == IF peek(s) # Null THEN peek(s) ELSE tokenAt(s, Len(s.tokens) - 1)
  IN IF tokenToUse = Null
       THEN [threw |-> TRUE, pos |-> NoPosition]
       ELSE [threw |-> FALSE,
             pos |-> [position |-> s.position,
                      line |-> tokenToUse.tok.line,
                      column |-> tokenToUse.tok.column]]

\* ----------------------------------------------------------- parsers
\* A ParseFn is the closure a factory returns; it is represented by the
\* factory's name and arguments.
ParseFn(op, types, ps, flag, text) ==
  [op |-> op, types |-> types, ps |-> ps, flag |-> flag, text |-> text]

anyExcept(types) == ParseFn("anyExcept", types, << >>, FALSE, "")
anyOf(types) == ParseFn("anyOf", types, << >>, FALSE, "")
endOfInput == ParseFn("endOfInput", << >>, << >>, FALSE, "")
and(parsers) == ParseFn("and", << >>, parsers, FALSE, "")
attempt(parser) == ParseFn("attempt", << >>, <<parser>>, FALSE, "")
optional(parser, shouldBacktrack) ==
  ParseFn("optional", << >>, <<parser>>, shouldBacktrack, "")
or(parsers) == ParseFn("or", << >>, parsers, FALSE, "")
many(parser) == ParseFn("many", << >>, <<parser>>, FALSE, "")
map(parser, mapper) == ParseFn("map", << >>, <<parser>>, FALSE, mapper)
label(text, parser) == ParseFn("label", << >>, <<parser>>, FALSE, text)

\* types.join(', ')
join(types) ==
  [i \in 1..(IF Len(types) = 0 THEN 0 ELSE 2 * Len(types) - 1) |->
     IF i % 2 = 1 THEN types[(i + 1) \div 2] ELSE ", "]

\* token?.type || 'end of input'
typeOrEnd(token) == IF token = Null THEN "end of input" ELSE token.tok.type

\* the mapper functions handed to map(): a pure function of the value
mapper(name, v) ==
  CASE name = "wrap" -> Array(<<v>>)
    [] name = "void" -> Undefined
    [] OTHER -> v

\* what a run yields: the returned object r, the cursor state s it leaves
\* and the parser invocations it made
Ran(r, s, log) == [r |-> r, s |-> s, log |-> log]

\* a callee that threw or never returned: the caller's frame is abandoned
\* where it stands
Abandons(r) == r.kind \in {"raise", "diverge"}

\* a failed primitive: the object literal evaluates getPositionForError()
Fails(msg, s, log) ==
  LET e == getPositionForError(s)
  IN IF e.threw THEN Ran(Raised, s, log)
                ELSE Ran(FailedParserResult(msg, e.pos), s, log)

runAnyExcept(p, s, log) ==
  LET c == consume(s)
      token == c.ret
  IN IF token = Null \/ includes(p.types, token.tok.type)
       THEN Fails(<<"Expected any token not of type ">> \o join(p.types)
                    \o <<", but got ", typeOrEnd(token)>>, c.s, log)
       ELSE Ran(SuccessfulParserResult(token), c.s, log)

runAnyOf(p, s, log) ==
  LET c == consume(s)
      token == c.ret
  IN IF token = Null \/ ~includes(p.types, token.tok.type)
       THEN Fails(<<"Expected token of type ">> \o join(p.types)
                    \o <<", but got ", typeOrEnd(token)>>, c.s, log)
       ELSE Ran(SuccessfulParserResult(token), c.s, log)

\* endOfInput that takes the reserved token for a leftover like any other
runEndOfInputStrict(p, s, log) ==
  LET c == consume(s)
  IN IF c.ret # Null
       THEN Fails(<<"Expected end of input, but got token of type ",
                    c.ret.tok.type>>, c.s, log)
       ELSE Ran(SuccessfulParserResult(Null), c.s, log)

runEndOfInput(p, s, log) ==
  LET c == consume(s)
      token == c.ret
  IN IF token # Null /\ token.tok.type # EndOfInputType
       THEN Fails(<<"Expected end of input, but got token of type ",
                    token.tok.type>>, c.s, log)
       ELSE Ran(SuccessfulParserResult(Null), c.s, log)

\* -------------------------------------------------------- combinators
RECURSIVE Run(_, _, _)
RECURSIVE andLoop(_, _, _, _, _)
RECURSIVE orLoop(_, _, _, _, _, _)
RECURSIVE manyLoop(_, _, _, _)

\* results.unshift(value): the value goes to the front
unshift(results, value) == <<value>> \o results

\* results.push(value)
push(results, value) == Append(results, value)

\* isSuccessfulResult / isFailedResult read a property of their argument:
\* on null that read throws a TypeError
TypeGuardThrows(r) == r.kind = "null"

\* and: the for loop over parsers, at parsers[i] with `results` collected
andLoop(parsers, i, s, results, log) ==
  IF i > Len(parsers)
    THEN Ran(SuccessfulParserResult(Array(results)), s, log)
    ELSE LET x == Run(parsers[i], s, log)
             parseResult == x.r
         IN IF Abandons(parseResult) THEN x
            ELSE IF TypeGuardThrows(parseResult) THEN Ran(Raised, x.s, x.log)
            ELSE IF isFailedResult(parseResult) THEN x
            ELSE andLoop(parsers, i + 1, x.s,
                         push(results, parseResult.result), x.log)

\* and that goes back to where it started when one of its parsers fails
runAndRewinds(p, s, log) ==
  LET x == andLoop(p.ps, 1, s, << >>, log)
  IN IF x.r.kind = "object" /\ isFailedResult(x.r)
       THEN Ran(x.r, [x.s EXCEPT !.position = s.position], x.log)
       ELSE x

runAnd(p, s, log) == andLoop(p.ps, 1, s, << >>, log)

runAttempt(p, s, log) ==
  LET x == Run(p.ps[1], storePosition(s), log)
      result == x.r
  IN IF Abandons(result) THEN x
     ELSE IF TypeGuardThrows(result) THEN Ran(Raised, x.s, x.log)
     ELSE IF isSuccessfulResult(result)
       THEN Ran(result, clearPosition(x.s), x.log)
       ELSE Ran(result, restorePosition(x.s), x.log)

\* optional that hands the failure of its parser on to the caller
runOptionalReportsFailure(p, s, log) ==
  Run(IF p.flag THEN attempt(p.ps[1]) ELSE p.ps[1], s, log)

\* optional that runs its parser inside attempt whatever shouldBacktrack is
runOptionalAlwaysBacktracks(p, s, log) ==
  LET x == Run(attempt(p.ps[1]), s, log)
  IN IF x.r.kind # "object" \/ isSuccessfulResult(x.r) THEN x
     ELSE Ran(SuccessfulParserResult(Null), x.s, x.log)

runOptional(p, s, log) ==
  LET parseFn == IF p.flag THEN attempt(p.ps[1]) ELSE p.ps[1]
      x == Run(parseFn, s, log)
      result == x.r
  IN IF Abandons(result) THEN x
     ELSE IF TypeGuardThrows(result) THEN Ran(Raised, x.s, x.log)
     ELSE IF isSuccessfulResult(result) THEN x
     ELSE Ran(SuccessfulParserResult(Null), x.s, x.log)

\* or: >= in place of >, a later failure of equal depth takes over
deeperOrEqual(errorPosition, deepestErrorPosition) ==
  errorPosition.position >= deepestErrorPosition

\* or: position.position > deepestErrorPosition
deeper(errorPosition, deepestErrorPosition) ==
  errorPosition.position > deepestErrorPosition

\* or: the loop that runs each alternative as it is, not inside attempt
orLoopWithoutAttempt(parsers, i, s, deepestError, deepestErrorPosition, log) ==
  IF i > Len(parsers)
    THEN Ran(deepestError, s, log)
    ELSE LET x == Run(parsers[i], s, log)
         IN IF x.r.kind # "object" \/ isSuccessfulResult(x.r) THEN x
            ELSE IF isFailedResult(x.r)
                    /\ deeper(x.r.position, deepestErrorPosition)
              THEN orLoop(parsers, i + 1, x.s, x.r, x.r.position.position, x.log)
              ELSE orLoop(parsers, i + 1, x.s, deepestError,
                          deepestErrorPosition, x.log)

\* or: the loop in which every failure takes the place of the one kept
orLoopKeepsLatest(parsers, i, s, deepestError, deepestErrorPosition, log) ==
  IF i > Len(parsers)
    THEN Ran(deepestError, s, log)
    ELSE LET x == Run(attempt(parsers[i]), s, log)
         IN IF x.r.kind # "object" \/ isSuccessfulResult(x.r) THEN x
            ELSE orLoop(parsers, i + 1, x.s, x.r, deepestErrorPosition, x.log)

\* or: the for loop over parsers, at parsers[i]
orLoop(parsers, i, s, deepestError, deepestErrorPosition, log) ==
  IF i > Len(parsers)
    THEN Ran(deepestError, s, log)
    ELSE LET tryParse == attempt(parsers[i])
             x == Run(tryParse, s, log)
             result == x.r
         IN IF Abandons(result) THEN x
            ELSE IF TypeGuardThrows(result) THEN Ran(Raised, x.s, x.log)
            ELSE IF isSuccessfulResult(result) THEN x
            ELSE IF isFailedResult(result)
                    /\ deeper(result.position, deepestErrorPosition)
              THEN orLoop(parsers, i + 1, x.s, result,
                          result.position.position, x.log)
              ELSE orLoop(parsers, i + 1, x.s, deepestError,
                          deepestErrorPosition, x.log)

\* or that walks its parsers from the last to the first
runOrFromTheRight(p, s, log) ==
  orLoop([i \in 1..Len(p.ps) |-> p.ps[Len(p.ps) + 1 - i]], 1, s,
         NullResult, -1, log)

runOr(p, s, log) == orLoop(p.ps, 1, s, NullResult, -1, log)

\* many: positionAfter === positionBefore
noProgress(positionAfter, positionBefore) == positionAfter = positionBefore

\* many: the failure is returned whatever was collected
manyReturnFailureFirst(parseFailure, results) ==
  IF parseFailure.kind # "null"
    THEN parseFailure
    ELSE SuccessfulParserResult(Array(results))

\* many: the collected list is returned whatever happened
manyReturnListAlways(parseFailure, results) ==
  SuccessfulParserResult(Array(results))

\* many: what follows the loop, parseFailure being null when the loop was
\* left on a success without progress
manyReturn(parseFailure, results) ==
  IF parseFailure.kind # "null" /\ Len(results) = 0
    THEN parseFailure
    ELSE SuccessfulParserResult(Array(results))

\* many: one turn of the while (true) loop.  A turn that starts at or past
\* the end of the tokens and succeeds with progress is followed by the same
\* turn one step further on, for ever (past the end every read yields
\* undefined, whatever the index): the call never returns.
manyLoop(parser, s, results, log) ==
  LET positionBefore == s.position
      x == Run(parser, storePosition(s), log)
      result == x.r
      positionAfter == x.s.position
  IN IF Abandons(result) THEN x
     ELSE IF TypeGuardThrows(result) THEN Ran(Raised, x.s, x.log)
     ELSE IF isSuccessfulResult(result)
       THEN IF noProgress(positionAfter, positionBefore)
              THEN Ran(manyReturn(NullResult, results),
                       restorePosition(x.s), x.log)
            ELSE IF positionBefore >= Len(s.tokens)
              THEN Ran(Diverged, clearPosition(x.s), x.log)
            ELSE manyLoop(parser, clearPosition(x.s),
                          push(results, result.result), x.log)
       ELSE Ran(manyReturn(result, results), restorePosition(x.s), x.log)

runMany(p, s, log) == manyLoop(p.ps[1], s, << >>, log)

runMap(p, s, log) ==
  LET x == Run(p.ps[1], s, log)
      result == x.r
  IN IF Abandons(result) THEN x
     ELSE IF TypeGuardThrows(result) THEN Ran(Raised, x.s, x.log)
     ELSE IF isSuccessfulResult(result)
       THEN Ran([kind |-> "object", result |-> mapper(p.text, result.result),
                 errorMessage |-> NoMessage, position |-> NoPosition],
                x.s, x.log)
       ELSE x

\* label that puts the label behind the message of its parser
runLabelBehind(p, s, log) ==
  LET x == Run(p.ps[1], s, log)
  IN IF x.r.kind # "object" \/ isSuccessfulResult(x.r) THEN x
     ELSE Ran(FailedParserResult(x.r.errorMessage \o <<": ", p.text>>,
                                 x.r.position), x.s, x.log)

runLabel(p, s, log) ==
  LET x == Run(p.ps[1], s, log)
      result == x.r
  IN IF Abandons(result) THEN x
     ELSE IF TypeGuardThrows(result) THEN Ran(Raised, x.s, x.log)
     ELSE IF isSuccessfulResult(result) THEN x
     ELSE Ran([kind |-> "object", result |-> Undefined,
               errorMessage |-> <<p.text, ": ">> \o
                 (IF result.errorMessage = NoMessage THEN <<"undefined">>
                                                     ELSE result.errorMessage),
               position |-> result.position],
              x.s, x.log)

\* parser(tokenStream): the call of a ParseFn, entered in the call log
Run(p, s, log) ==
  LET here == Append(log, [p |-> p, at |-> s.position])
  IN CASE p.op = "anyExcept" -> runAnyExcept(p, s, here)
       [] p.op = "anyOf" -> runAnyOf(p, s, here)
       [] p.op = "endOfInput" -> runEndOfInput(p, s, here)
       [] p.op = "and" -> runAnd(p, s, here)
       [] p.op = "attempt" -> runAttempt(p, s, here)
       [] p.op = "optional" -> runOptional(p, s, here)
       [] p.op = "or" -> runOr(p, s, here)
       [] p.op = "many" -> runMany(p, s, here)
       [] p.op = "map" -> runMap(p, s, here)
       [] p.op = "label" -> runLabel(p, s, here)

\* ---------------------------------------------------------- Tokenizer
\* the characters of the input strings
Chars == {"a", "b"}

\* an entry of tokenTypeMatchers: a string matcher is the set of its one
\* character, a RegExp matcher the set of the characters it accepts
Rule(matcher, type) == [matcher |-> matcher, type |-> type]

\* tokenizer.withTokenType(matcher, type): Map.set gives a matcher that is
\* already a key its new type in place, and puts a new matcher last
withTokenType(tokenTypeMatchers, matcher, type) ==
  IF \E i \in 1..Len(tokenTypeMatchers) : tokenTypeMatchers[i].matcher = matcher
    THEN [i \in 1..Len(tokenTypeMatchers) |->
            IF tokenTypeMatchers[i].matcher = matcher
              THEN Rule(matcher, type) ELSE tokenTypeMatchers[i]]
    ELSE Append(tokenTypeMatchers, Rule(matcher, type))

\* char === matcher, matcher.test(char)
matches(matcher, char) == char \in matcher

\* the for loop over tokenTypeMatchers for one character: its body ends in
\* break or in throw, so only the first entry is ever looked at, and with no
\* entry the body does not run
matchChar(tokenTypeMatchers, char) ==
  IF Len(tokenTypeMatchers) = 0 THEN [does |-> "nothing", type |-> ""]
  ELSE IF matches(tokenTypeMatchers[1].matcher, char)
    THEN [does |-> "push", type |-> tokenTypeMatchers[1].type]
    ELSE [does |-> "throw", type |-> ""]

\* input.split('').reduce(...): the callback at character k, position.column
\* having started at 1 and been incremented once per character so far
RECURSIVE reduce(_, _, _, _)
reduce(tokenTypeMatchers, input, k, toks) ==
  IF k > Len(input) THEN [threw |-> FALSE, tokens |-> toks]
  ELSE LET m == matchChar(tokenTypeMatchers, input[k])
           here == [type |-> m.type, value |-> input[k],
                    line |-> 1, column |-> 1 + k]
       IN CASE m.does = "throw" -> [threw |-> TRUE, tokens |-> << >>]
            [] m.does = "push" -> reduce(tokenTypeMatchers, input, k + 1, push(toks, here))
            [] OTHER -> reduce(tokenTypeMatchers, input, k + 1, toks)

tokenize(tokenTypeMatchers, input) == reduce(tokenTypeMatchers, input, 1, << >>)

\* ------------------------------------------------------------- runners
\* new ParserError(message, location): the constructor reads location.line
\* and location.column, a TypeError when location is undefined
ParserError(message, location) ==
  IF location = NoPosition THEN Raised
  ELSE [kind |-> "ParserError", result |-> Undefined,
        errorMessage |-> <<"Parser Error [", ToString(location.line), ":",
                           ToString(location.column), "]: ">> \o message,
        position |-> location]

runParser(parser, s) ==
  LET x == Run(parser, s, << >>)
      test == x.r
  IN IF Abandons(test) THEN x
     ELSE IF TypeGuardThrows(test) THEN Ran(Raised, x.s, x.log)
     ELSE IF isFailedResult(test)
       THEN Ran(ParserError(test.errorMessage, test.position), x.s, x.log)
       ELSE x

\* ------------------------------------------------------ the parsers run
Prims ==
  {anyOf(<<"a">>), anyOf(<<"b">>), anyExcept(<<"a">>), endOfInput}

Letters == {anyOf(<<"a">>), anyOf(<<"b">>)}

Pairs == {and(<<p, q>>) : p \in Prims, q \in Prims}

Triples == {and(<<p, q, r>>) : p \in Letters, q \in Letters, r \in Letters}

LetterPairs == {and(<<p, q>>) : p \in Letters, q \in Letters}

Deep == {and(<<anyOf(<<"a">>), q>>) : q \in Letters}

Alternatives ==
  {or(<<p, q>>) : p \in Prims \cup Deep, q \in Prims \cup Deep}
  \cup {or(<<p, q, r>>) : p \in Deep, q \in Letters, r \in Deep}
  \cup {or(<<p>>) : p \in Prims}

Wrapped ==
  UNION { {attempt(p), many(p), optional(p, TRUE), optional(p, FALSE)}
          : p \in Prims \cup LetterPairs }

Transformed ==
  UNION { {label("expr", p), map(p, "wrap"), map(p, "void")} : p \in Prims }

Nested ==
  UNION { {many(optional(p, TRUE)), many(optional(p, FALSE)),
           optional(many(p), TRUE), many(attempt(p))} : p \in Prims }
  \cup {and(<<many(anyOf(<<"a">>)), many(anyOf(<<"b">>))>>),
        many(or(<<anyOf(<<"a">>), anyOf(<<"b">>)>>)),
        many(and(<<anyOf(<<"a">>), optional(anyOf(<<"b">>), FALSE)>>)),
        attempt(many(anyOf(<<"a">>))),
        attempt(map(anyOf(<<"a">>), "void")),
        many(map(anyOf(<<"a">>), "void")),
        or(<<map(anyOf(<<"a">>), "void"), anyOf(<<"a", "b">>)>>),
        and(<<map(anyOf(<<"a">>), "void"), anyOf(<<"b">>)>>),
        label("expr", map(anyOf(<<"a">>), "void"))}

Parsers ==
  Prims \cup {anyOf(<<"a", "b">>)} \cup Pairs \cup Triples \cup Alternatives
  \cup Wrapped \cup Transformed \cup Nested

\* the parsers handed to the runners
RunnerParsers ==
  Prims
  \cup {and(<<anyOf(<<"a">>), anyOf(<<"b">>)>>),
        or(<<anyOf(<<"a">>), anyOf(<<"b">>)>>),
        many(anyOf(<<"a">>)),
        optional(anyOf(<<"b">>), TRUE),
        map(anyOf(<<"a">>), "wrap"),
        map(anyOf(<<"a">>), "void"),
        label("expr", anyOf(<<"b">>)),
        label("expr", map(anyOf(<<"a">>), "void"))}

\* the input strings and the tokenizers handed to runParserOnString
Inputs == UNION { [1..n -> Chars] : n \in 0..MaxLen }

Tokenizers ==
  {<< >>,
   withTokenType(<< >>, {"a"}, "a"),
   withTokenType(<< >>, {"a", "b"}, "a"),
   withTokenType(withTokenType(<< >>, {"a"}, "a"), {"b"}, "b"),
   withTokenType(withTokenType(<< >>, {"b"}, "b"), {"a"}, "a")}

\* the newLineTokenType a Tokenizer is constructed with; "" stands for the
\* default null, which is the type of no token
NewLineTokenTypes == {"", "a"}

\* ------------------------------------------------------- state machine
\* a cursor method seen as a call, and the value it returned
Method(name, types) == ParseFn(name, types, << >>, FALSE, "")
Returned(v) ==
  [kind |-> "value", result |-> v, errorMessage |-> NoMessage, position |-> NoPosition]

Cursor == Stream(position, positionStack)

\* new TokenStream(tokens)
Init ==
  /\ tokens \in TokenArrays
  /\ position = 0
  /\ positionStack = << >>
  /\ lastOp = Method("new", << >>)
  /\ before = Stream(0, << >>)
  /\ outcome = Returned(Undefined)
  /\ calls = << >>

\* a runner seen as a call
RunnerCall(name, parser, input, tokenizer) ==
  [op |-> name, parser |-> parser, input |-> input, tokenizer |-> tokenizer]

\* tokenize seen as a call on a Tokenizer object
TokenizerCall(input, tokenizer, newLineTokenType) ==
  [op |-> "tokenize", input |-> input, tokenizer |-> tokenizer,
   newLineTokenType |-> newLineTokenType]

\* a call that never returns leaves nothing to do on this stream
Live == outcome.kind # "diverge"

Did(op, s, r) ==
  /\ position' = s.position
  /\ positionStack' = s.positionStack
  /\ lastOp' = op
  /\ before' = Cursor
  /\ outcome' = r
  /\ calls' = << >>
  /\ UNCHANGED tokens

Peek ==
  /\ Live
  /\ Did(Method("peek", << >>), Cursor, Returned(peek(Cursor)))

Consume ==
  /\ Live
  /\ position < MaxPos
  /\ LET c == consume(Cursor)
     IN Did(Method("consume", << >>), c.s, Returned(c.ret))

ConsumeIf ==
  /\ Live
  /\ \E ty \in TokenTypes :
       LET c == consumeIf(Cursor, <<ty>>)
       IN Did(Method("consumeIf", <<ty>>), c.s, Returned(c.ret))

StorePosition ==
  /\ Live
  /\ Len(positionStack) < MaxStack
  /\ Did(Method("storePosition", << >>), storePosition(Cursor), Returned(Undefined))

ClearPosition ==
  /\ Live
  /\ Did(Method("clearPosition", << >>), clearPosition(Cursor), Returned(Undefined))

RestorePosition ==
  /\ Live
  /\ Did(Method("restorePosition", << >>), restorePosition(Cursor), Returned(Undefined))

\* The caller has just positioned the cursor.  What a parser does depends
\* on the cursor alone, and every cursor that a parser or another cursor
\* method leaves behind is also one that new, consume() and storePosition()
\* build, so parsers are applied after these three only: the reachable
\* states are the same as without this restriction (running q after p is
\* and(<<p, q>>)).
Positioned == lastOp.op \in {"new", "consume", "storePosition"}

\* parser(tokenStream) for a parser built from the factories
Parse ==
  /\ Live
  /\ Positioned
  /\ Len(positionStack) <= MaxStack
  /\ \E p \in Parsers :
       LET x == Run(p, Cursor, << >>)
       IN /\ x.s.position <= MaxPos
          /\ position' = x.s.position
          /\ positionStack' = x.s.positionStack
          /\ lastOp' = p
          /\ before' = Cursor
          /\ outcome' = x.r
          /\ calls' = x.log
          /\ UNCHANGED tokens

\* runParser(parser, tokenStream) on the caller's stream
RunParser ==
  /\ Live
  /\ Positioned
  /\ Len(positionStack) <= MaxStack
  /\ \E parser \in RunnerParsers :
       LET x == runParser(parser, Cursor)
       IN /\ x.s.position <= MaxPos
          /\ position' = x.s.position
          /\ positionStack' = x.s.positionStack
          /\ lastOp' = RunnerCall("runParser", parser, << >>, << >>)
          /\ before' = Cursor
          /\ outcome' = x.r
          /\ calls' = x.log
          /\ UNCHANGED tokens

\* runParserOnString(parser, input, tokenizer): it builds a stream of its
\* own and reads and writes nothing of the caller's, so it is taken from the
\* initial states only
RunParserOnString ==
  /\ lastOp.op = "new"
  /\ \E parser \in RunnerParsers, input \in Inputs, tokenizer \in Tokenizers :
       LET t == tokenize(tokenizer, input)
           stream == TokenStream(t.tokens)
           x == runParser(parser, stream)
       IN /\ lastOp' = RunnerCall("runParserOnString", parser, input, tokenizer)
          /\ IF t.threw
               THEN /\ before' = Cursor
                    /\ outcome' = Raised
                    /\ calls' = << >>
               ELSE /\ x.s.position <= MaxPos
                    /\ before' = stream
                    /\ outcome' = x.r
                    /\ calls' = x.log
          /\ UNCHANGED <<tokens, position, positionStack>>

\* tokenizer.tokenize(input) for a tokenizer built with the constructor and
\* withTokenType: like runParserOnString it reads nothing of a stream
Tokenize ==
  /\ lastOp.op = "new"
  /\ \E input \in Inputs, tokenizer \in Tokenizers,
        newLineTokenType \in NewLineTokenTypes :
       LET t == tokenize(tokenizer, input)
       IN /\ lastOp' = TokenizerCall(input, tokenizer, newLineTokenType)
          /\ before' = Cursor
          /\ outcome' =
               IF t.threw THEN Raised
               ELSE Returned(Array([k \in 1..Len(t.tokens) |->
                                      TokenValue(t.tokens[k])]))
          /\ calls' = << >>
          /\ UNCHANGED <<tokens, position, positionStack>>

Next ==
  \/ Tokenize
  \/ RunParser
  \/ RunParserOnString
  \/ Peek
  \/ Consume
  \/ ConsumeIf
  \/ StorePosition
  \/ ClearPosition
  \/ RestorePosition
  \/ Parse

Spec == Init /\ [][Next]_vars

\* ------------------------------------------------------------- claims
\* The last call returned a Success / a Failure, as the library's type
\* guards classify the returned object.
Success == outcome.kind = "object" /\ isSuccessfulResult(outcome)
Failure == outcome.kind = "object" /\ isFailedResult(outcome)

Succeeds(x) == x.r.kind = "object" /\ isSuccessfulResult(x.r)
FailsAt(x) == x.r.kind = "object" /\ isFailedResult(x.r)

\* parser p applied by itself to the cursor the last call started from
Alone(p) == Run(p, before, << >>)

\* the log entry of the last call itself
Entry == [p |-> lastOp, at |-> before.position]

\* the call logs of the runs xs[1..k], one after the other
RECURSIVE Logs(_, _)
Logs(xs, k) == IF k = 0 THEN << >> ELSE Logs(xs, k - 1) \o xs[k].log

\* C1: attempt(p) that returns a Failure leaves the cursor index where it
\* was before the call; attempt(p) that returns a Success leaves it where p
\* itself leaves it.
C1_AttemptCursor ==
  lastOp.op = "attempt" =>
    /\ Failure => position = before.position
    /\ Success => position = Alone(lastOp.ps[1]).s.position

\* attempt(p) failed after p had consumed a token that is really there
C1_Witness ==
  /\ lastOp.op = "attempt"
  /\ Failure
  /\ Alone(lastOp.ps[1]).s.position > before.position + 1
  /\ before.position + 1 <= Len(tokens)

\* the alternatives of the last or() call, each applied by itself to the
\* cursor or() started from
Alt(k) == Alone(lastOp.ps[k])
Tried(k) == Alone(attempt(lastOp.ps[k]))

\* alternative k is the first one to succeed, the earlier ones having
\* returned something that is not a success
FirstSuccess(k) ==
  /\ Succeeds(Alt(k))
  /\ \A j \in 1..(k - 1) : Alt(j).r.kind = "object" /\ ~Succeeds(Alt(j))

\* C2: or is left-biased: it returns the Success of the first alternative
\* that succeeds from the starting cursor, leaves the cursor where that
\* alternative leaves it, and has then run the alternatives up to that one,
\* in order, each from the starting cursor, and none after it.
C2_OrLeftBiased ==
  lastOp.op = "or" =>
    \A k \in 1..Len(lastOp.ps) :
      FirstSuccess(k) =>
        /\ outcome = Alt(k).r
        /\ position = Alt(k).s.position
        /\ calls = <<Entry>> \o Logs([j \in 1..k |-> Tried(j)], k)

\* or(p1, p2, ..) where p1 and p2 both succeed, with different values
C2_Witness ==
  /\ lastOp.op = "or"
  /\ Len(lastOp.ps) >= 2
  /\ Succeeds(Alt(1))
  /\ Succeeds(Alt(2))
  /\ Alt(1).r # Alt(2).r
  /\ Success

\* C3: when every alternative of or(p1..pn), n >= 1, fails, or returns the
\* failure with the largest position.position, and of several such the one
\* of the earliest alternative.
C3_OrDeepestError ==
  (/\ lastOp.op = "or"
   /\ Len(lastOp.ps) >= 1
   /\ \A j \in 1..Len(lastOp.ps) : FailsAt(Alt(j)))
  => \E k \in 1..Len(lastOp.ps) :
       /\ outcome = Alt(k).r
       /\ \A j \in 1..Len(lastOp.ps) :
            Alt(j).r.position.position <= Alt(k).r.position.position
       /\ \A j \in 1..(k - 1) :
            Alt(j).r.position.position < Alt(k).r.position.position

\* every alternative failed: two different failures tie at the largest
\* position, a less deep one lies between them, and the earlier of the two
\* is what or returned
C3_Witness ==
  /\ lastOp.op = "or"
  /\ \A j \in 1..Len(lastOp.ps) : FailsAt(Alt(j))
  /\ \E i, j, k \in 1..Len(lastOp.ps) :
       /\ i < j /\ j < k
       /\ Alt(j).r.position.position < Alt(i).r.position.position
       /\ Alt(i).r.position.position = Alt(k).r.position.position
       /\ Alt(i).r # Alt(k).r
       /\ outcome = Alt(i).r

\* and(p1..pn) as a chain: p1 applied to cursor s, each next parser applied
\* where the one before left the cursor, up to and including the first one
\* that does not return normally or returns a failure
RECURSIVE Chain(_, _, _)
Chain(parsers, i, s) ==
  IF i > Len(parsers)
    THEN << >>
    ELSE LET x == Run(parsers[i], s, << >>)
         IN IF x.r.kind = "object" /\ ~isFailedResult(x.r)
              THEN <<x>> \o Chain(parsers, i + 1, x.s)
              ELSE <<x>>

\* C4: and(p1..pn) runs its parsers in order; it fails iff some pi fails,
\* then returns the failure of the first failing pi and runs no later
\* parser; when none fails it returns the Success of the list of their
\* values in order.
C4_AndSequence ==
  lastOp.op = "and" =>
    LET xs == Chain(lastOp.ps, 1, before)
        n == Len(xs)
        failed == n > 0 /\ FailsAt(xs[n])
        ended == n = 0 \/ xs[n].r.kind = "object"
    IN ended =>
         /\ Failure <=> failed
         /\ failed => outcome = xs[n].r
         /\ ~failed =>
              outcome = SuccessfulParserResult(
                          Array([i \in 1..n |-> xs[i].r.result]))
         /\ calls = <<Entry>> \o Logs(xs, n)

\* and(p1, p2, p3) where p1 succeeded and p2 failed, so that p3 was not run
C4_Witness ==
  /\ lastOp.op = "and"
  /\ Len(lastOp.ps) = 3
  /\ Len(Chain(lastOp.ps, 1, before)) = 2
  /\ FailsAt(Chain(lastOp.ps, 1, before)[2])
  /\ Failure

\* many(p) as repeated application: p applied at cursor s and again where
\* it left the cursor after each success with progress made before the end
\* of the tokens, up to and including the first application that is not one
RECURSIVE Repeat(_, _)
Repeat(parser, s) ==
  LET x == Run(parser, s, << >>)
  IN IF Succeeds(x) /\ x.s.position > s.position /\ s.position < Len(s.tokens)
       THEN <<x>> \o Repeat(parser, x.s)
       ELSE <<x>>

\* C5: if p, applied repeatedly from the starting cursor, succeeds with
\* progress n >= 1 times and then fails, many(p) returns the Success of
\* those n values in order and leaves the cursor where the n-th application
\* left it.
C5_ManyCollects ==
  lastOp.op = "many" =>
    LET xs == Repeat(lastOp.ps[1], before)
        n == Len(xs) - 1
    IN (n >= 1 /\ FailsAt(xs[n + 1])) =>
         /\ outcome = SuccessfulParserResult(
                        Array([i \in 1..n |-> xs[i].r.result]))
         /\ position = xs[n].s.position

\* many(p) collected two values before p failed
C5_Witness ==
  /\ lastOp.op = "many"
  /\ Len(Repeat(lastOp.ps[1], before)) = 3
  /\ FailsAt(Repeat(lastOp.ps[1], before)[3])
  /\ Success
  /\ Len(outcome.result.items) = 2

\* C6: many(p) never returns a Success carrying an empty list.
C6_ManyNeverEmptySuccess ==
  lastOp.op = "many" => ~(Success /\ outcome.result = Array(<< >>))

\* C7: many(p) returns, for every parser p that itself returns.
C7_ManyTerminates ==
  lastOp.op = "many" => outcome.kind # "diverge"

\* C8: when p fails on its first application, many(p) returns that failure
\* and leaves the cursor index where it was before the call.
C8_ManyFirstFailure ==
  (lastOp.op = "many" /\ FailsAt(Alone(lastOp.ps[1]))) =>
    /\ outcome = Alone(lastOp.ps[1]).r
    /\ position = before.position

\* many(p) whose p failed at once, away from the start of the tokens
C8_Witness ==
  /\ lastOp.op = "many"
  /\ FailsAt(Alone(lastOp.ps[1]))
  /\ Failure
  /\ before.position > 0

\* C9: with the cursor at index i < len(tokens) and type(tokens[i]) in
\* types, anyOf(types) returns the Success carrying tokens[i], leaves the
\* cursor at i + 1 and the backtrack stack as it was.
C9_AnyOfMatch ==
  (/\ lastOp.op = "anyOf"
   /\ before.position < Len(tokens)
   /\ includes(lastOp.types, tokens[before.position + 1].type))
  => /\ outcome = SuccessfulParserResult(TokenValue(tokens[before.position + 1]))
     /\ position = before.position + 1
     /\ positionStack = before.positionStack

\* anyOf of two types matched the second token, with a saved position on
\* the stack
C9_Witness ==
  /\ lastOp.op = "anyOf"
  /\ Len(lastOp.types) = 2
  /\ before.position = 1
  /\ Len(tokens) = 2
  /\ before.positionStack # << >>
  /\ Success

\* C10: anyOf(types) that returns a Failure leaves the cursor index where it
\* was before the call.
C10_AnyOfFailureKeepsCursor ==
  (lastOp.op = "anyOf" /\ Failure) => position = before.position

\* C11: optional(p, shouldBacktrack) never returns a Failure: it returns
\* p's Success unchanged when p succeeds and the Success carrying null when
\* p fails, and with shouldBacktrack = true a failing p leaves the cursor
\* index where it was before the call.
C11_OptionalNeverFails ==
  lastOp.op = "optional" =>
    LET x == Alone(lastOp.ps[1])
    IN /\ ~Failure
       /\ Succeeds(x) => outcome = x.r
       /\ FailsAt(x) =>
            /\ outcome = SuccessfulParserResult(Null)
            /\ lastOp.flag => position = before.position

\* optional(p, true) turned into null the failure of a p that had consumed
\* a token before it failed
C11_Witness ==
  /\ lastOp.op = "optional"
  /\ lastOp.flag
  /\ FailsAt(Alone(lastOp.ps[1]))
  /\ Alone(lastOp.ps[1]).s.position > before.position + 1
  /\ before.position + 1 <= Len(tokens)
  /\ outcome = SuccessfulParserResult(Null)

\* the last call applied a parser (and not a cursor method)
ParserApplied ==
  lastOp.op \in {"anyExcept", "anyOf", "endOfInput", "and", "attempt",
                 "optional", "or", "many", "map", "label"}

\* C12: whenever a parser returns a Success or a Failure, the backtrack
\* stack is the one the parser was called with; a parse started on an empty
\* stack ends on an empty stack.
C12_StackBalanced ==
  (ParserApplied /\ (Success \/ Failure)) =>
    positionStack = before.positionStack

\* a combinator that stored and released positions several times returned,
\* above a position the caller had saved
C12_Witness ==
  /\ lastOp.op = "many"
  /\ Success
  /\ Len(calls) > 3
  /\ before.positionStack # << >>
  /\ positionStack = before.positionStack

\* C13: in every reachable state the cursor index lies between 0 and the
\* number of tokens, also after a primitive or consume() was applied to an
\* exhausted cursor.
C13_CursorBound == position >= 0 /\ position <= Len(tokens)

\* C14: applying a parser never raises, whatever the token array (the empty
\* one included); many(anyOf(t)) applied to the empty token array returns a
\* Failure.
C14_FailureIsData ==
  ParserApplied =>
    /\ outcome.kind # "raise"
    /\ (lastOp = many(anyOf(<<"a">>)) /\ tokens = << >> /\ before.position = 0)
         => Failure

\* C15: every object a parser returns is classified as exactly one of
\* Success and Failure by the type guards, whatever the success value (that
\* of map(p, f) with f returning undefined included), and attempt() around
\* such a success keeps the cursor where the success left it.
C15_ExactlyOneVariant ==
  /\ (ParserApplied /\ outcome.kind = "object") =>
       (isSuccessfulResult(outcome) # isFailedResult(outcome))
  /\ (/\ lastOp.op = "attempt"
      /\ lastOp.ps[1].op = "map"
      /\ Succeeds(Alone(lastOp.ps[1].ps[1])))
     => position = Alone(lastOp.ps[1].ps[1]).s.position

\* C16: label(text, p) that fails returns the Failure whose message is
\* text, then ": ", then p's message, at p's error position; when p
\* succeeds it returns p's Success unmodified; either way the cursor is
\* where p left it.
C16_LabelPrefixes ==
  lastOp.op = "label" =>
    LET x == Alone(lastOp.ps[1])
    IN /\ FailsAt(x) =>
            outcome = FailedParserResult(<<lastOp.text, ": ">> \o x.r.errorMessage,
                                         x.r.position)
       /\ Succeeds(x) => outcome = x.r
       /\ (Succeeds(x) \/ FailsAt(x)) => Cursor = x.s

\* label("expr", p) prefixed the message of a p that failed on the second
\* token
C16_Witness ==
  /\ lastOp.op = "label"
  /\ Failure
  /\ before.position = 1
  /\ Len(tokens) = 2
  /\ outcome.errorMessage[1] = "expr"
  /\ outcome.position.column = 2

\* C17: map(p, f) returns the Success carrying f(v) when p succeeds with
\* value v, whatever f(v) is, and p's Failure unchanged when p fails; the
\* cursor is where p left it.
C17_MapApplies ==
  lastOp.op = "map" =>
    LET x == Alone(lastOp.ps[1])
    IN /\ Succeeds(x) =>
            /\ Success
            /\ outcome.result = mapper(lastOp.text, x.r.result)
       /\ FailsAt(x) => outcome = x.r
       /\ (Succeeds(x) \/ FailsAt(x)) => Cursor = x.s

\* C18: endOfInput() returns the Success carrying null when the cursor is
\* exhausted or the next token has the reserved end-marker type, and for
\* any other token a Failure whose message names that token's type.
C18_EndOfInput ==
  lastOp.op = "endOfInput" =>
    LET i == before.position
    IN IF i >= Len(tokens) \/ tokens[i + 1].type = EndOfInputType
         THEN outcome = SuccessfulParserResult(Null)
         ELSE /\ Failure
              /\ outcome.errorMessage =
                   <<"Expected end of input, but got token of type ",
                     tokens[i + 1].type>>

\* endOfInput() accepted a token of the reserved type that follows an
\* ordinary token
C18_Witness ==
  /\ lastOp.op = "endOfInput"
  /\ before.position = 1
  /\ Len(tokens) = 2
  /\ tokens[2].type = EndOfInputType
  /\ Success

\* C19: anyExcept(types) returns a Failure exactly when the cursor is
\* exhausted or the next token's type is one of types; otherwise it returns
\* the Success carrying that token and advances the cursor by exactly one.
C19_AnyExceptDual ==
  lastOp.op = "anyExcept" =>
    LET i == before.position
    IN IF i >= Len(tokens) \/ includes(lastOp.types, tokens[i + 1].type)
         THEN Failure
         ELSE /\ outcome = SuccessfulParserResult(TokenValue(tokens[i + 1]))
              /\ position = i + 1

\* C20: runParser(parser, stream) applies the parser exactly once; when the
\* parser returns a Failure it throws a ParserError carrying that failure's
\* message and error position (line, column, index), and when it returns a
\* Success it returns that Success; runParserOnString tokenizes the input
\* and then does the same on a new stream at index 0 with an empty stack.
C20_RunnerContract ==
  (/\ lastOp.op \in {"runParser", "runParserOnString"}
   /\ ~tokenize(lastOp.tokenizer, lastOp.input).threw)
  => LET x == Alone(lastOp.parser)
         message == outcome.errorMessage
     IN /\ calls = x.log
        /\ FailsAt(x) =>
             /\ outcome.kind = "ParserError"
             /\ outcome.position = x.r.position
             /\ Len(message) >= Len(x.r.errorMessage)
             /\ SubSeq(message, Len(message) - Len(x.r.errorMessage) + 1,
                       Len(message)) = x.r.errorMessage
        /\ Succeeds(x) => outcome = x.r
        /\ lastOp.op = "runParser" => Cursor = x.s
        /\ lastOp.op = "runParserOnString" =>
             before = TokenStream(tokenize(lastOp.tokenizer, lastOp.input).tokens)

\* the scenario of C21: or(anyOf(x), anyOf(y)) applied at index 0 to a
\* single token whose type is neither x nor y
OrOnForeignToken ==
  /\ lastOp.op = "or"
  /\ Len(lastOp.ps) = 2
  /\ lastOp.ps[1].op = "anyOf" /\ Len(lastOp.ps[1].types) = 1
  /\ lastOp.ps[2].op = "anyOf" /\ Len(lastOp.ps[2].types) = 1
  /\ lastOp.ps[1].types # lastOp.ps[2].types
  /\ Len(tokens) = 1
  /\ before.position = 0
  /\ ~includes(lastOp.ps[1].types \o lastOp.ps[2].types, tokens[1].type)

\* C21: or(anyOf(x), anyOf(y)) applied to a single token of a third type
\* returns a Failure whose message names both x and y and whose error
\* position is that of the token (index 0, its line and column).
C21_OrNamesBothSets ==
  OrOnForeignToken =>
    /\ Failure
    /\ includes(outcome.errorMessage, lastOp.ps[1].types[1])
    /\ includes(outcome.errorMessage, lastOp.ps[2].types[1])
    /\ outcome.position =
         [position |-> 0, line |-> tokens[1].line, column |-> tokens[1].column]

\* C21 as the code has it: or returns the Failure of its first alternative
\* unchanged (both failures are equally deep and the earlier one is kept):
\* the message names x and the type found, not y, and the error position
\* has the line and column of the token.
C21_OrKeepsFirstFailure ==
  OrOnForeignToken =>
    /\ Failure
    /\ outcome = Alt(1).r
    /\ outcome.errorMessage =
         <<"Expected token of type ", lastOp.ps[1].types[1], ", but got ",
           tokens[1].type>>
    /\ ~includes(outcome.errorMessage, lastOp.ps[2].types[1])
    /\ outcome.position.line = tokens[1].line
    /\ outcome.position.column = tokens[1].column

\* or(anyOf(x), anyOf(y)) has failed on a single token of a third type
C21_Witness == OrOnForeignToken /\ Failure /\ FailsAt(Alt(2))

\* the first rule, in registration order, that matches the character (0 if
\* none does)
FirstMatch(rules, char) ==
  IF \E i \in 1..Len(rules) : matches(rules[i].matcher, char)
    THEN CHOOSE i \in 1..Len(rules) :
           /\ matches(rules[i].matcher, char)
           /\ \A j \in 1..(i - 1) : ~matches(rules[j].matcher, char)
    ELSE 0

\* the tokens the last tokenize call returned
Emitted == [k \in 1..Len(outcome.result.items) |-> outcome.result.items[k].tok]

\* C22: tokenize gives every character, in input order, the type of the
\* first rule in registration order that matches it, whether or not that
\* is the first registered rule.
C22_FirstMatchWins ==
  (/\ lastOp.op = "tokenize"
   /\ \A k \in 1..Len(lastOp.input) :
        FirstMatch(lastOp.tokenizer, lastOp.input[k]) # 0)
  => /\ outcome.kind = "value"
     /\ Len(Emitted) = Len(lastOp.input)
     /\ \A k \in 1..Len(lastOp.input) :
          Emitted[k].type =
            lastOp.tokenizer[FirstMatch(lastOp.tokenizer, lastOp.input[k])].type

\* C23: tokenize either throws, some character matching no rule, or returns
\* exactly one token per input character, in input order; this for every
\* rule list, the empty one included.
C23_AllOrNothing ==
  lastOp.op = "tokenize" =>
    /\ outcome.kind \in {"raise", "value"}
    /\ outcome.kind = "raise" =>
         \E k \in 1..Len(lastOp.input) :
           FirstMatch(lastOp.tokenizer, lastOp.input[k]) = 0
    /\ outcome.kind = "value" =>
         /\ Len(Emitted) = Len(lastOp.input)
         /\ \A k \in 1..Len(lastOp.input) : Emitted[k].value = lastOp.input[k]

\* the characters before the k-th that have the designated newline type
NewLinesBefore(k) ==
  {j \in 1..(k - 1) :
     /\ FirstMatch(lastOp.tokenizer, lastOp.input[j]) # 0
     /\ lastOp.tokenizer[FirstMatch(lastOp.tokenizer, lastOp.input[j])].type
          = lastOp.newLineTokenType}

\* C24: token positions are 1-based: the k-th character of a line has
\* column k, the first token is at line 1, column 1, and the line of a
\* token is 1 plus the number of characters of the designated newline type
\* before it.
C24_PositionsOneBased ==
  (/\ lastOp.op = "tokenize"
   /\ outcome.kind = "value"
   /\ Len(Emitted) = Len(lastOp.input))
  => \A k \in 1..Len(Emitted) :
       LET nl == NewLinesBefore(k)
           lineStart == IF nl = {} THEN 0
                        ELSE CHOOSE j \in nl : \A i \in nl : i <= j
       IN /\ Emitted[k].line = 1 + Cardinality(nl)
          /\ Emitted[k].column = k - lineStart

\* C25: when the parser inside attempt, or or many throws, the position the
\* combinator pushed is popped before the exception leaves it: the caller
\* finds the backtrack stack as deep as it was.
C25_StackPairedOnRaise ==
  (lastOp.op \in {"attempt", "or", "many"} /\ outcome.kind = "raise")
  => Len(positionStack) = Len(before.positionStack)

\* C26: a primitive that fails on the token at index i reports position i
\* with the line and column of that token; one that fails at the exhausted
\* cursor of a non-empty array reports the line and column of the last
\* token.
C26_ErrorAtOffendingToken ==
  (lastOp.op \in {"anyOf", "anyExcept", "endOfInput"} /\ Failure) =>
    LET i == before.position
        last == tokens[Len(tokens)]
    IN IF i < Len(tokens)
         THEN outcome.position =
                [position |-> i, line |-> tokens[i + 1].line,
                 column |-> tokens[i + 1].column]
         ELSE /\ outcome.position.line = last.line
              /\ outcome.position.column = last.column

\* sequence xs begins with sequence ys
StartsWith(xs, ys) == Len(ys) <= Len(xs) /\ SubSeq(xs, 1, Len(ys)) = ys

\* C27: every alternative that or(p1..pn) runs starts, inside attempt, at
\* the cursor index at which or was entered, whatever the alternatives
\* before it consumed before failing; when all alternatives fail the
\* cursor index after or is the index before it.
C27_OrNoPartialConsumption ==
  lastOp.op = "or" =>
    /\ \A k \in 1..Len(lastOp.ps) :
         (\A j \in 1..(k - 1) : Alt(j).r.kind = "object" /\ ~Succeeds(Alt(j)))
         => /\ StartsWith(calls,
                         <<Entry>> \o Logs([j \in 1..k |-> Tried(j)], k))
            /\ Tried(k).log[1] =
                 [p |-> attempt(lastOp.ps[k]), at |-> before.position]
            /\ Tried(k).log[2] = [p |-> lastOp.ps[k], at |-> before.position]
    /\ (\A j \in 1..Len(lastOp.ps) : FailsAt(Alt(j)))
         => position = before.position

\* both alternatives of or consumed a token that is there before they
\* failed, and or left the cursor where it found it
C27_Witness ==
  /\ lastOp.op = "or"
  /\ Len(lastOp.ps) >= 2
  /\ \A j \in 1..Len(lastOp.ps) :
       FailsAt(Alt(j)) /\ Alt(j).s.position = before.position + 2
  /\ before.position + 1 <= Len(tokens)
  /\ before.position > 0
  /\ position = before.position

\* C28: and(p1..pn) does not backtrack: when pk is the first of its parsers
\* to fail, the cursor is where pk left it, the tokens p1..p(k-1) consumed
\* stay consumed, and the backtrack stack is the one and was called with.
C28_AndNoBacktracking ==
  lastOp.op = "and" =>
    LET xs == Chain(lastOp.ps, 1, before)
        k == Len(xs)
    IN (k > 0 /\ FailsAt(xs[k])) =>
         /\ Cursor = xs[k].s
         /\ k > 1 => position >= xs[k - 1].s.position
         /\ positionStack = before.positionStack

\* and(p1, p2, ..) failed at p2 after p1 had consumed a token, above a
\* position the caller had saved
C28_Witness ==
  /\ lastOp.op = "and"
  /\ Failure
  /\ Len(Chain(lastOp.ps, 1, before)) = 2
  /\ Chain(lastOp.ps, 1, before)[1].s.position = before.position + 1
  /\ before.position + 1 <= Len(tokens)
  /\ position = before.position + 2
  /\ before.positionStack # << >>

\* C29: optional(p, false) does not rewind: when p fails it returns the
\* Success carrying null and leaves the cursor where the failing p left it,
\* and it neither pushes to nor pops from the backtrack stack (p is called
\* directly, not inside attempt).
C29_OptionalWithoutBacktrack ==
  (lastOp.op = "optional" /\ ~lastOp.flag /\ FailsAt(Alone(lastOp.ps[1])))
  => /\ outcome = SuccessfulParserResult(Null)
     /\ Cursor = Alone(lastOp.ps[1]).s
     /\ positionStack = before.positionStack
     /\ calls = Run(lastOp.ps[1], before, <<Entry>>).log

\* optional(p, false) returned null after p had consumed a token that is
\* there and failed on the next
C29_Witness ==
  /\ lastOp.op = "optional"
  /\ ~lastOp.flag
  /\ FailsAt(Alone(lastOp.ps[1]))
  /\ before.position + 1 <= Len(tokens)
  /\ position = before.position + 2
  /\ Success

\* C30: optional(many(p)) returns a Success from every cursor state: the
\* Success carrying null, with the cursor unchanged, when p fails on its
\* first application, and otherwise the value and the cursor of many(p).
C30_ZeroOrMore ==
  (lastOp.op = "optional" /\ lastOp.flag /\ lastOp.ps[1].op = "many") =>
    LET first == Alone(lastOp.ps[1].ps[1])
        m == Alone(lastOp.ps[1])
    IN /\ Success
       /\ FailsAt(first) =>
            /\ outcome = SuccessfulParserResult(Null)
            /\ position = before.position
       /\ ~FailsAt(first) => (outcome = m.r /\ Cursor = m.s)

\* the streams one read operation away from a stream of S, and those of S
Steps(S) ==
  S \cup {consume(t).s : t \in S}
    \cup {consumeIf(t, <<ty>>).s : t \in S, ty \in TokenTypes}

\* the streams that balanced sequences of cursor operations lead to from a
\* stream of S: reads, and up to d levels of storePosition() ... closed by
\* clearPosition() or restorePosition()
RECURSIVE Balanced(_, _)
Balanced(S, d) ==
  IF d = 0
    THEN Steps(Steps(S))
    ELSE LET inner == Balanced({storePosition(t) : t \in Steps(S)}, d - 1)
         IN Steps(S \cup {clearPosition(t) : t \in inner}
                    \cup {restorePosition(t) : t \in inner})

\* the stack without its last entry
Front(stk) == SubSeq(stk, 1, Len(stk) - 1)

\* C31: the backtrack stack is LIFO at any depth: storePosition pushes the
\* cursor index and leaves the cursor; clearPosition removes the entry
\* pushed last, only that one, and leaves the cursor; restorePosition
\* removes the entry pushed last and sets the cursor to it; hence
\* storePosition, a balanced sequence of operations, restorePosition gives
\* back the stream as it was at the store.
C31_StackIsLifo ==
  /\ lastOp.op = "storePosition" =>
       /\ positionStack = Append(before.positionStack, before.position)
       /\ position = before.position
  /\ (lastOp.op = "clearPosition" /\ before.positionStack # << >>) =>
       /\ positionStack = Front(before.positionStack)
       /\ position = before.position
  /\ (lastOp.op = "restorePosition" /\ before.positionStack # << >>) =>
       /\ positionStack = Front(before.positionStack)
       /\ position = before.positionStack[Len(before.positionStack)]
  /\ \A t \in Balanced({storePosition(Cursor)}, 2) :
       restorePosition(t) = Cursor

\* restorePosition() took the cursor back to the index saved last, under
\* which another saved index remains
C31_Witness ==
  /\ lastOp.op = "restorePosition"
  /\ Len(before.positionStack) = 2
  /\ before.positionStack[1] # before.positionStack[2]
  /\ before.position > before.positionStack[2]
  /\ position = before.positionStack[2]
  /\ positionStack = <<before.positionStack[1]>>

\* C32: peek leaves the cursor alone; consume returns the token at the
\* cursor and advances by exactly one when the cursor is before the end,
\* and returns null with the cursor unchanged at the end; consumeIf(types)
\* is consume when the type of the next token is in types and otherwise
\* returns null with the cursor unchanged; none of them touches the
\* backtrack stack.
C32_ReadOperations ==
  LET i == before.position
      inside == i < Len(tokens)
  IN /\ lastOp.op = "peek" =>
          /\ position = i
          /\ outcome = Returned(IF inside THEN TokenValue(tokens[i + 1]) ELSE Null)
     /\ lastOp.op = "consume" =>
          IF inside
            THEN outcome = Returned(TokenValue(tokens[i + 1])) /\ position = i + 1
            ELSE outcome = Returned(Null) /\ position = i
     /\ lastOp.op = "consumeIf" =>
          IF inside /\ includes(lastOp.types, tokens[i + 1].type)
            THEN outcome = Returned(TokenValue(tokens[i + 1])) /\ position = i + 1
            ELSE outcome = Returned(Null) /\ position = i
     /\ lastOp.op \in {"peek", "consume", "consumeIf"} =>
          positionStack = before.positionStack

====
